---- MODULE Spec2Model ----
(***************************************************************************)
(* Simulation core of src/src/GameCanvas.tsx (runGame): the world state,   *)
(* the procedural spawner, the gate rule engine, the pointer handlers and  *)
(* the per-frame update(dt), together with the browser side of a run: the  *)
(* animation-frame loop, the listeners and the cleanup.                    *)
(*                                                                         *)
(* Units.  The source computes in IEEE doubles.  Here every length is an   *)
(* integer number of hundredths of a logical unit (U(n) = n * 100) and     *)
(* every duration an integer number of milliseconds, so that               *)
(*   speed * dt        = 180 u/s * dt ms = 18 * dt   hundredths,           *)
(*   bullet vy * dt    = -520 u/s        = -52 * dt  hundredths,           *)
(*   item vy * dt      = 140 u/s         = 14 * dt   hundredths,           *)
(*   floater vy * dt   = -30 u/s         = -3 * dt   hundredths            *)
(* are exact.  The only rounding is in lerp (factor 0.18), which is        *)
(* floored to a hundredth, and in the random placements, which are drawn   *)
(* from per-mille values.                                                  *)
(* Math.random() is a generator whose successive values are read from a    *)
(* tape (per-mille values, read cyclically); the tape is an input.         *)
(***************************************************************************)
EXTENDS Integers, Sequences, FiniteSets, TLC

VARIABLES
    delivered,  \* number of pointer events delivered so far (bounds the inputs)
    state,      \* the `state` object of runGame (lines 149-171)
    player,     \* the `player` rectangle (lines 173-178)
    hudAccum,   \* `hudAccum` (line 372), ms
    hud,        \* the snapshot last handed to setHud (line 107 / 548)
    rng,        \* Math.random(): [tape |-> which tape, pos |-> values read so far]
    ev,         \* observation of the last operation (what it did, for the properties)
    host        \* the browser side of runGame: clock, animation-frame callbacks, listeners

vars == <<state, player, hudAccum, hud, rng, ev, delivered, host>>

-----------------------------------------------------------------------------
(* Program constants (logical units, as in the source)                      *)
LOGICAL_W == 360
LOGICAL_H == 640
PLAYER_SEGMENT_WIDTH == 10
BASE_PLAYER_SEGMENT_SPACING == 8
MIN_PLAYER_SEGMENT_SPACING == 2
BOSS_INTERVAL == 2000
BOSS_SPAWN_MARGIN == 40
BOSS_WIDTH == 90
BOSS_HEIGHT == 90
MAX_PLAYER_SEGMENTS == 20
MIN_PLAYER_WIDTH == 32
OBSTACLE_WIDTH == 56
OBSTACLE_HEIGHT == 56
OBSTACLE_HP_BASE == 32
OBSTACLE_HP_PER_DIST == 10
ATTACK_ITEM_SIZE == 22
ATTACK_ITEM_FALL_SPEED == 140
MAX_ATTACK_BONUS == 6
segLen == 240

\* hundredths of a logical unit
U(n) == n * 100

Min(a, b) == IF a < b THEN a ELSE b
Max(a, b) == IF a > b THEN a ELSE b

clamp(v, a, b) == Max(a, Min(b, v))

\* a + (b - a) * 0.18, floored to a hundredth
lerp18(a, b) == a + ((b - a) * 18) \div 100

aabb(a, b) ==
    /\ a.x < b.x + b.w
    /\ a.x + a.w > b.x
    /\ a.y < b.y + b.h
    /\ a.y + a.h > b.y

\* value is integer-valued in every state, so Math.floor is the identity on it
getPlayerCount(value) ==
    LET intValue == Max(0, value)
    IN  Max(1, Min(MAX_PLAYER_SEGMENTS, intValue))

getPlayerSegmentSpacing(count) ==
    IF count <= 1 THEN BASE_PLAYER_SEGMENT_SPACING
    ELSE LET reduction == (count - 1) \div 4
         IN  Max(MIN_PLAYER_SEGMENT_SPACING, BASE_PLAYER_SEGMENT_SPACING - reduction)

\* in logical units
getCrowdWidth(count) ==
    IF count <= 0 THEN MIN_PLAYER_WIDTH
    ELSE count * PLAYER_SEGMENT_WIDTH
         + Max(0, count - 1) * getPlayerSegmentSpacing(count)

\* the x of each segment, in hundredths (p.w - total is even in hundredths)
getPlayerSegmentPositions(p, count) ==
    LET totalSegmentWidth == U(getCrowdWidth(count))
        segmentStartX == p.x + Max(0, (p.w - totalSegmentWidth) \div 2)
        spacing == getPlayerSegmentSpacing(count)
    IN  [i \in 1..count |->
            segmentStartX + (i - 1) * U(PLAYER_SEGMENT_WIDTH + spacing)]

\* applyGate without the final Math.max(0, v)
applyGate_unclamped(value, op) ==
    CASE op.type = "add" -> value + op.amount
      [] op.type = "sub" -> value - op.amount
      [] op.type = "mul" -> value * op.amount
      [] op.type = "div" -> value \div op.amount

applyGate(value, op) ==
    LET v == CASE op.type = "add" -> value + op.amount
               [] op.type = "sub" -> value - op.amount
               [] op.type = "mul" -> value * op.amount
               [] op.type = "div" -> value \div op.amount
    IN  Max(0, v)

-----------------------------------------------------------------------------
(* Math.random()                                                            *)

\* Random tapes a run may be seeded with (per-mille values).  The calls of the
\* construction are, in order: gate pair 0 (2), wave 1 (1 + count), obstacle 2 (1),
\* gate pair 3 (2), wave 4 (1 + count), obstacle 5 (1); the later ones follow the
\* run.  In a run of 33 ms frames TapeA gives: gate pair 0 "sub 5" left and
\* "add 5" right, pair 3 "div 2" / "mul 2", pair 6 "add 5" / "mul 2", pair 9
\* "sub 5" / "add 5", pair 12 "div 2" / "mul 2"; waves of 9 zombies plus one per 800
\* units (wave 4: 14, its last two in front of obstacle 2); the bosses at x = 199.6.
TapeA == <<600, 100, 0, 900, 50, 900, 50, 900, 900, 900, 900, 50, 950, 800, 300, 950,
           50, 120, 50, 120, 50, 120, 50, 120, 50, 120, 50, 120, 900, 900, 900, 100,
           300, 0, 50, 120, 700, 50, 900, 200, 50, 120, 700, 600, 600, 100, 0, 50,
           120, 700, 50, 900, 200, 50, 120, 700, 50, 600, 800, 300, 0, 50, 120, 700,
           50, 900, 200, 50, 120, 700, 50, 900, 600, 840, 100, 300, 0, 50, 120, 700,
           50, 900, 200, 50, 120, 700, 50, 900, 200, 600, 100, 300, 0, 50, 120, 700,
           50, 900, 200, 50, 120, 700, 50, 900, 200, 600, 100, 300, 0, 50, 120, 700,
           50, 900, 200, 50, 120, 700, 50, 900, 200, 50, 840, 600, 100, 300, 0, 50,
           120, 700, 50, 900, 200, 50, 120, 700, 50, 900, 200, 50, 120, 600, 100, 300,
           0, 50, 120, 700, 50, 900, 200, 50, 120, 700, 50, 900, 200, 50, 120, 700,
           600, 100, 300, 840, 0, 50, 120, 700, 50, 900, 200, 50, 120, 700, 50, 900,
           200, 50, 120, 700, 50, 600, 100, 300, 0, 50, 120, 700, 50, 900, 200, 50,
           120, 700, 50, 900, 200, 50, 120, 700, 50, 900>>
\* TapeB places hazards at the edge of the crowd, beside its bullet columns: gate
\* pairs 0 and 3 are "add 5" on both sides; the lowest zombie of wave 1 stands at
\* x = 190 (right of the bullets of a player in the middle); obstacle 2 (x = 189.82)
\* and the last zombie of wave 4 (x = 209.6) stand left of a crowd of 6 on the
\* right; obstacle 5 (x = 186.16) and the last zombie of wave 7 (x = 187.2) stand
\* right of a crowd of 11 on the left; every other zombie is at x = 201.2.
TapeB == <<100, 100, 0, 640, 640, 640, 640, 640, 640, 640, 640, 600, 655, 100, 100, 700,
           640, 640, 640, 640, 640, 640, 640, 640, 640, 640, 640, 640, 670, 640, 100, 100,
           700, 640, 640, 640, 640, 640, 640, 640, 640, 640, 640, 640, 640, 590, 640, 640,
           640, 640, 640, 640, 640, 640, 640, 640, 640, 640, 640, 640, 640, 640, 640, 640,
           640, 640, 640, 640, 640, 640, 640, 640, 640, 640, 640, 640, 640, 640, 640, 640,
           640, 640, 640, 640, 640, 640, 640, 640, 640, 640, 640, 640, 640, 640, 640, 640,
           640, 640, 640, 640, 640>>
Tapes == <<TapeA, TapeB>>

\* the value (per mille) of the k-th call from now, k >= 1
RandAt(rg, k) == Tapes[rg.tape][((rg.pos + k - 1) % Len(Tapes[rg.tape])) + 1]
\* the generator after n calls
RandSkip(rg, n) == [rg EXCEPT !.pos = (rg.pos + n) % Len(Tapes[rg.tape])]

-----------------------------------------------------------------------------
(* Spawner.  A world w is [s |-> state, p |-> player, rg |-> rng, ...].     *)

gateOps == <<[type |-> "add", amount |-> 5],
             [type |-> "mul", amount |-> 2],
             [type |-> "sub", amount |-> 5],
             [type |-> "div", amount |-> 2]>>

makeGate(x, y, w, h, op) == [x |-> x, y |-> y, w |-> w, h |-> h, op |-> op, used |-> FALSE]

\* (Math.random() * ops.length) | 0
spawnGatePair(w, y) ==
    LET a == gateOps[(RandAt(w.rg, 1) * Len(gateOps)) \div 1000 + 1]
        b == gateOps[(RandAt(w.rg, 2) * Len(gateOps)) \div 1000 + 1]
        gateW == U(130)
        gateH == U(44)
        verticalSpacing == gateH + U(120)
        g1 == makeGate(U(LOGICAL_W) \div 4 - gateW \div 2, y, gateW, gateH, a)
        g2 == makeGate((U(LOGICAL_W) * 3) \div 4 - gateW \div 2, y - verticalSpacing,
                       gateW, gateH, b)
    IN  [w EXCEPT !.s.gates = Append(Append(@, g1), g2),
                  !.rg = RandSkip(@, 2)]

\* spawnZombies without the cap of 40 on the wave size
spawnZombies_uncapped(w, y) ==
    LET count == 6 + (3 + (RandAt(w.rg, 1) * 6) \div 1000) + w.s.dist \div U(800)
        zx(i) == U(40) + (RandAt(w.rg, 1 + i) * (LOGICAL_W - 80)) \div 10
        zs == [i \in 1..count |->
                 [x |-> zx(i) - U(18), y |-> y + (i - 1) * U(40), w |-> U(36), h |-> U(36),
                  hp |-> 12 + (w.s.dist \div U(200)) * 8,
                  damage |-> 3 + w.s.dist \div U(1000)]]
    IN  [w EXCEPT !.s.zombies = @ \o zs,
                  !.rg = RandSkip(@, 1 + count)]

spawnZombies(w, y) ==
    LET earlyWave == 6
        randomBonus == 3 + (RandAt(w.rg, 1) * 6) \div 1000
        intensity == w.s.dist \div U(800)
        count == Min(40, earlyWave + randomBonus + intensity)
        \* zx = 40 + Math.random() * (LOGICAL_W - 80)
        zx(i) == U(40) + (RandAt(w.rg, 1 + i) * (LOGICAL_W - 80)) \div 10
        zs == [i \in 1..count |->
                 [x |-> zx(i) - U(18), y |-> y + (i - 1) * U(40), w |-> U(36), h |-> U(36),
                  hp |-> 12 + (w.s.dist \div U(200)) * 8,
                  damage |-> 3 + w.s.dist \div U(1000)]]
    IN  [w EXCEPT !.s.zombies = @ \o zs,
                  !.rg = RandSkip(@, 1 + count)]

spawnObstacle(w, y) ==
    LET hp == OBSTACLE_HP_BASE + (w.s.dist \div U(300)) * OBSTACLE_HP_PER_DIST
        availableX == Max(0, LOGICAL_W - OBSTACLE_WIDTH - 60)
        x == U(30) + (RandAt(w.rg, 1) * availableX) \div 10
    IN  [w EXCEPT !.s.obstacles = Append(@, [x |-> x, y |-> y, w |-> U(OBSTACLE_WIDTH),
                                              h |-> U(OBSTACLE_HEIGHT), hp |-> hp, maxHp |-> hp]),
                  !.rg = RandSkip(@, 1)]

spawnAttackItem(w, centerX, topY, bonus) ==
    LET it == [x |-> centerX - U(ATTACK_ITEM_SIZE) \div 2, y |-> topY,
               w |-> U(ATTACK_ITEM_SIZE), h |-> U(ATTACK_ITEM_SIZE),
               vy |-> ATTACK_ITEM_FALL_SPEED, bonus |-> bonus, collected |-> FALSE]
    IN  [w EXCEPT !.s.items = Append(@, it),
                  !.o.itemsSpawned = Append(@, it)]

spawnBoss(w) ==
    LET hp == 200 + (w.s.dist \div U(400)) * 50
        availableWidth == Max(0, LOGICAL_W - BOSS_SPAWN_MARGIN * 2 - BOSS_WIDTH)
        x == U(BOSS_SPAWN_MARGIN) + (RandAt(w.rg, 1) * availableWidth) \div 10
    IN  [w EXCEPT !.s.bosses = Append(@, [x |-> x, y |-> U(-BOSS_HEIGHT - 120),
                                           w |-> U(BOSS_WIDTH), h |-> U(BOSS_HEIGHT), hp |-> hp,
                                           damage |-> 12 + w.s.dist \div U(800)]),
                  !.s.nextBossDist = @ + BOSS_INTERVAL,
                  !.rg = RandSkip(@, 1),
                  !.o.bossesSpawned = @ + 1]

\* ensureBossSpawn with `if` in place of `while`: one boss per call at most
ensureBossSpawn_once(w) ==
    IF w.s.dist >= U(w.s.nextBossDist) THEN spawnBoss(w) ELSE w

RECURSIVE ensureBossSpawn(_)
ensureBossSpawn(w) ==
    IF w.s.dist >= U(w.s.nextBossDist) THEN ensureBossSpawn(spawnBoss(w)) ELSE w

\* what one pass of the loop body of ensureSpawns appended, for the observation
SegRecord(idx, before, after) ==
    [idx |-> idx,
     gates |-> SubSeq(after.s.gates, Len(before.s.gates) + 1, Len(after.s.gates)),
     zombies |-> Len(after.s.zombies) - Len(before.s.zombies),
     obstacles |-> Len(after.s.obstacles) - Len(before.s.obstacles),
     bosses |-> Len(after.s.bosses) - Len(before.s.bosses),
     items |-> Len(after.s.items) - Len(before.s.items)]

spawnSegment(w) ==
    LET w1 == [w EXCEPT !.s.lastSeg = @ + 1]
        y == U(-800 - w1.s.lastSeg * segLen)
        mod == w1.s.lastSeg % 3
        w2 == IF mod = 0 THEN spawnGatePair(w1, y)
              ELSE IF mod = 1 THEN spawnZombies(w1, y)
              ELSE spawnObstacle(w1, y)
    IN  [w2 EXCEPT !.o.segs = Append(@, SegRecord(w1.s.lastSeg, w, w2))]

\* ensureSpawns with `if` in place of `while`: one segment per call at most
ensureSpawns_once(w) ==
    LET needSeg == (w.s.dist + U(1400)) \div U(segLen)
    IN  IF w.s.lastSeg < needSeg THEN spawnSegment(w) ELSE w

RECURSIVE ensureSpawns(_)
ensureSpawns(w) ==
    LET needSeg == (w.s.dist + U(1400)) \div U(segLen)
    IN  IF w.s.lastSeg < needSeg THEN ensureSpawns(spawnSegment(w)) ELSE w

spawnFloater(w, text, x, y) ==
    [w EXCEPT !.s.floaters = Append(@, [text |-> text, x |-> x, y |-> y, vy |-> -30, life |-> 900])]

-----------------------------------------------------------------------------
(* update(dt), lines 374-554, phase by phase.  dt is in milliseconds.       *)

\* the observation record of an operation that has not acted yet
NoObs(op, dt, startedAlive) ==
    [op |-> op, dt |-> dt, startedAlive |-> startedAlive,
     segs |-> <<>>, bossesSpawned |-> 0, itemsSpawned |-> <<>>, hits |-> <<>>,
     pre |-> [bullets |-> <<>>, zombies |-> <<>>, bosses |-> <<>>, obstacles |-> <<>>],
     post |-> [bullets |-> <<>>, zombies |-> <<>>, bosses |-> <<>>, obstacles |-> <<>>],
     collected |-> <<>>, fired |-> 0, published |-> FALSE,
     gatesApplied |-> <<>>, afterGates |-> -1, hurts |-> <<>>, scoreAtDeath |-> -1,
     calls |-> <<>>]

\* lines 377-391: crowd width from the score, centre kept, then the glide
movePlayer(w, dt) ==
    LET playerCount == getPlayerCount(w.s.scoreValue)
        crowdWidth == Max(U(MIN_PLAYER_WIDTH), U(getCrowdWidth(playerCount)))
        playerCenterX == w.p.x + w.p.w \div 2
        x1 == playerCenterX - crowdWidth \div 2
        desired == clamp(w.s.targetX - crowdWidth \div 2, U(18),
                         U(LOGICAL_W) - crowdWidth - U(18))
    IN  [w EXCEPT !.p.w = crowdWidth,
                  !.p.x = lerp18(x1, desired),
                  !.s.time = @ + dt,
                  !.s.dist = @ + (w.s.speed * dt) \div 10]

\* the scroll without the lane-bottom test of lines 398-400
scrollWorld_noBottomTest(w, dt) ==
    LET dy == (w.s.speed * dt) \div 10
        down(seq) == [i \in 1..Len(seq) |-> [seq[i] EXCEPT !.y = @ + dy]]
    IN  [w EXCEPT !.s.gates = down(@),
                  !.s.zombies = down(@),
                  !.s.bosses = down(@),
                  !.s.obstacles = down(@)]

\* lines 393-402: dy = speed * dt; a boss at the lane bottom ends the run
scrollWorld(w, dt) ==
    LET dy == (w.s.speed * dt) \div 10
        down(seq) == [i \in 1..Len(seq) |-> [seq[i] EXCEPT !.y = @ + dy]]
        bs == down(w.s.bosses)
        atBottom == \E i \in 1..Len(bs) : bs[i].y + bs[i].h >= U(LOGICAL_H)
    IN  [w EXCEPT !.s.gates = down(@),
                  !.s.zombies = down(@),
                  !.s.bosses = bs,
                  !.s.obstacles = down(@),
                  !.s.alive = IF atBottom /\ @ THEN FALSE ELSE @,
                  !.o.scoreAtDeath = IF atBottom /\ w.s.alive THEN w.s.scoreValue ELSE @]

\* hurtPlayer without Math.max(0, ...)
hurtPlayer_unclamped(w, amount) ==
    IF ~w.s.alive \/ amount <= 0 THEN w
    ELSE LET before == w.s.scoreValue
             after == before - amount
             w1 == spawnFloater([w EXCEPT !.s.scoreValue = after,
                                          !.o.hurts = Append(@, [amount |-> amount,
                                                                 before |-> before,
                                                                 after |-> after])],
                                [kind |-> "delta", n |-> after - before],
                                w.p.x + w.p.w \div 2, w.p.y)
         IN  IF after <= 0
             THEN [w1 EXCEPT !.s.alive = FALSE, !.o.scoreAtDeath = after]
             ELSE w1

\* lines 404-415; the floater text is the signed delta
hurtPlayer(w, amount) ==
    IF ~w.s.alive \/ amount <= 0 THEN w
    ELSE LET before == w.s.scoreValue
             after == Max(0, before - amount)
             w1 == spawnFloater([w EXCEPT !.s.scoreValue = after,
                                          !.o.hurts = Append(@, [amount |-> amount,
                                                                 before |-> before,
                                                                 after |-> after])],
                                [kind |-> "delta", n |-> after - before],
                                w.p.x + w.p.w \div 2, w.p.y)
         IN  IF after <= 0
             THEN [w1 EXCEPT !.s.alive = FALSE, !.o.scoreAtDeath = after]
             ELSE w1

\* The indices i of seq, in collection order, for which Test(seq[i]) holds: the
\* iterations of a `for ... of` loop that do not `continue` at once.
Indices(seq, Test(_)) ==
    LET RECURSIVE from(_)
        from(S) == IF S = {} THEN <<>>
                   ELSE LET i == CHOOSE i \in S : \A j \in S : i <= j
                        IN  <<i>> \o from(S \ {i})
    IN  from({i \in 1..Len(seq) : Test(seq[i])})

\* gateLoop without `g.used = true`
RECURSIVE gateLoop_notMarked(_, _)
gateLoop_notMarked(w, todo) ==
    IF todo = <<>> THEN w
    ELSE LET i == Head(todo)
             before == w.s.scoreValue
             after == applyGate(before, w.s.gates[i].op)
             w1 == [w EXCEPT !.s.scoreValue = after,
                             !.o.gatesApplied = Append(@, [gate |-> i, before |-> before,
                                                           after |-> after])]
         IN  gateLoop_notMarked(spawnFloater(w1, [kind |-> "delta", n |-> after - before],
                                             w.p.x + w.p.w \div 2, w.p.y),
                                Tail(todo))

\* lines 417-430; the player does not move in this loop, so the gates that pass
\* the two tests are known when it starts
RECURSIVE gateLoop(_, _)
gateLoop(w, todo) ==
    IF todo = <<>> THEN w
    ELSE LET i == Head(todo)
             before == w.s.scoreValue
             after == applyGate(before, w.s.gates[i].op)
             w1 == [w EXCEPT !.s.gates[i].used = TRUE,
                             !.s.scoreValue = after,
                             !.o.gatesApplied = Append(@, [gate |-> i, before |-> before,
                                                           after |-> after])]
         IN  gateLoop(spawnFloater(w1, [kind |-> "delta", n |-> after - before],
                                   w.p.x + w.p.w \div 2, w.p.y),
                      Tail(todo))

resolveGates(w) ==
    LET w1 == gateLoop(w, Indices(w.s.gates, LAMBDA g : ~g.used /\ aabb(w.p, g)))
    IN  [w1 EXCEPT !.o.afterGates = w1.s.scoreValue]

\* lines 320-343
shootAtNearest(w, dt) ==
    LET cd == w.s.shootCooldown - dt
    IN  IF cd > 0 THEN [w EXCEPT !.s.shootCooldown = cd]
        ELSE LET count == getPlayerCount(w.s.scoreValue)
                 segments == getPlayerSegmentPositions(w.p, count)
                 bulletDamage == 5 + w.s.attackBonus
                 new == [i \in 1..count |->
                           [x |-> segments[i] + U(PLAYER_SEGMENT_WIDTH) \div 2 - U(3),
                            y |-> w.p.y - U(10), w |-> U(6), h |-> U(10),
                            vx |-> 0, vy |-> -520, life |-> 1100, dmg |-> bulletDamage]]
             IN  [w EXCEPT !.s.bullets = @ \o new,
                           !.s.shootCooldown = 80,
                           !.o.fired = count]

\* lines 434-438
advanceBullets(w, dt) ==
    [w EXCEPT !.s.bullets =
        [i \in 1..Len(@) |-> [@[i] EXCEPT !.life = @ - dt,
                                           !.x = @ + (w.s.bullets[i].vx * dt) \div 10,
                                           !.y = @ + (w.s.bullets[i].vy * dt) \div 10]]]

\* firstHit without the hp > 0 test: a target already at hp <= 0 still stops bullets
firstHit_anyHp(seq, b) ==
    LET S == {i \in 1..Len(seq) : aabb(b, seq[i])}
    IN  IF S = {} THEN 0 ELSE CHOOSE i \in S : \A j \in S : i <= j

\* the first enemy of seq, in collection order, with hp > 0 that b overlaps; 0 if none
firstHit(seq, b) ==
    LET S == {i \in 1..Len(seq) : seq[i].hp > 0 /\ aabb(b, seq[i])}
    IN  IF S = {} THEN 0 ELSE CHOOSE i \in S : \A j \in S : i <= j

\* hitEnemy without `b.life = 0`: the bullet flies on after the hit
hitEnemy_keepsBullet(w, bi, kind, ei) ==
    LET b == w.s.bullets[bi]
        group == IF kind = "zombie" THEN w.s.zombies ELSE w.s.bosses
        enemy == group[ei]
        w1 == IF kind = "zombie"
              THEN [w EXCEPT !.s.zombies[ei].hp = @ - b.dmg]
              ELSE [w EXCEPT !.s.bosses[ei].hp = @ - b.dmg]
        w2 == [w1 EXCEPT !.o.hits = Append(@, [bullet |-> bi, kind |-> kind, target |-> ei])]
    IN  spawnFloater(w2, [kind |-> "hit", n |-> b.dmg], enemy.x + enemy.w \div 2, enemy.y)

\* lines 444-455 for one bullet and one group ("zombies" or "bosses")
hitEnemy(w, bi, kind, ei) ==
    LET b == w.s.bullets[bi]
        group == IF kind = "zombie" THEN w.s.zombies ELSE w.s.bosses
        enemy == group[ei]
        w1 == IF kind = "zombie"
              THEN [w EXCEPT !.s.zombies[ei].hp = @ - b.dmg]
              ELSE [w EXCEPT !.s.bosses[ei].hp = @ - b.dmg]
        w2 == [w1 EXCEPT !.s.bullets[bi].life = 0,
                         !.o.hits = Append(@, [bullet |-> bi, kind |-> kind, target |-> ei])]
    IN  spawnFloater(w2, [kind |-> "hit", n |-> b.dmg], enemy.x + enemy.w \div 2, enemy.y)

\* lines 458-479 for one bullet
hitObstacle(w, bi, oi) ==
    LET b == w.s.bullets[bi]
        obstacle == w.s.obstacles[oi]
        hp == obstacle.hp - b.dmg
        w1 == [w EXCEPT !.s.obstacles[oi].hp = hp,
                        !.s.bullets[bi].life = 0,
                        !.o.hits = Append(@, [bullet |-> bi, kind |-> "obstacle", target |-> oi])]
        w2 == spawnFloater(w1, [kind |-> "hit", n |-> b.dmg],
                           obstacle.x + obstacle.w \div 2, obstacle.y)
        bonus == Max(1, Min(MAX_ATTACK_BONUS, obstacle.maxHp \div 30))
    IN  IF hp <= 0
        THEN spawnAttackItem(w2, obstacle.x + obstacle.w \div 2, obstacle.y + obstacle.h, bonus)
        ELSE w2

\* lines 441-480: zombies, then bosses, and the obstacles only if no enemy was hit
bulletHit(w, bi) ==
    LET b == w.s.bullets[bi]
        zi == firstHit(w.s.zombies, b)
        bo == firstHit(w.s.bosses, b)
        oi == firstHit(w.s.obstacles, b)
    IN  IF b.life <= 0 THEN w
        ELSE IF zi # 0 THEN hitEnemy(w, bi, "zombie", zi)
        ELSE IF bo # 0 THEN hitEnemy(w, bi, "boss", bo)
        ELSE IF oi # 0 THEN hitObstacle(w, bi, oi)
        ELSE w

\* hp only falls in the loop, so a bullet that overlaps nothing with hp > 0 when
\* the loop starts hits nothing: the loop body is a no-op for it
RECURSIVE bulletLoop(_, _)
bulletLoop(w, todo) ==
    IF todo = <<>> THEN w ELSE bulletLoop(bulletHit(w, Head(todo)), Tail(todo))

Snapshot(w) ==
    [bullets |-> w.s.bullets, zombies |-> w.s.zombies,
     bosses |-> w.s.bosses, obstacles |-> w.s.obstacles]

resolveBullets(w) ==
    LET todo == Indices(w.s.bullets,
                        LAMBDA b : /\ b.life > 0
                                   /\ \/ firstHit(w.s.zombies, b) # 0
                                      \/ firstHit(w.s.bosses, b) # 0
                                      \/ firstHit(w.s.obstacles, b) # 0)
        w1 == bulletLoop([w EXCEPT !.o.pre = Snapshot(w)], todo)
    IN  [w1 EXCEPT !.o.post = Snapshot(w1)]

\* lines 482-488: the obstacle loop stops once the player is dead
RECURSIVE obstacleDamage(_, _)
obstacleDamage(w, todo) ==
    IF todo = <<>> \/ ~w.s.alive THEN w
    ELSE obstacleDamage(hurtPlayer(w, 1), Tail(todo))

\* enemyDamage where only the first enemy touching the player hurts
enemyDamage_firstOnly(w, seq, todo) ==
    IF todo = <<>> THEN w ELSE hurtPlayer(w, seq[Head(todo)].damage)

\* lines 490-502, for state.zombies and for state.bosses
RECURSIVE enemyDamage(_, _, _)
enemyDamage(w, seq, todo) ==
    IF todo = <<>> THEN w
    ELSE enemyDamage(hurtPlayer(w, seq[Head(todo)].damage), seq, Tail(todo))

resolveDamage(w) ==
    LET touching(e) == e.hp > 0 /\ aabb(w.p, e)
        w1 == obstacleDamage(w, Indices(w.s.obstacles, touching))
        w2 == enemyDamage(w1, w1.s.zombies, Indices(w1.s.zombies, touching))
    IN  enemyDamage(w2, w2.s.bosses, Indices(w2.s.bosses, touching))

\* the collection loop without Math.min(MAX_ATTACK_BONUS, ...)
RECURSIVE collectLoop_uncapped(_, _)
collectLoop_uncapped(w, todo) ==
    IF todo = <<>> THEN w
    ELSE LET i == Head(todo)
             item == w.s.items[i]
             before == w.s.attackBonus
             after == before + item.bonus
             w1 == [w EXCEPT !.s.attackBonus = after,
                             !.s.items[i].collected = TRUE,
                             !.o.collected = Append(@, [item |-> i, bonus |-> item.bonus,
                                                        before |-> before])]
         IN  collectLoop_uncapped(spawnFloater(w1, [kind |-> "attack", n |-> after - before],
                                               item.x + item.w \div 2, item.y),
                                  Tail(todo))

\* lines 504-519: every item moves; the uncollected ones on the player are collected
RECURSIVE collectLoop(_, _)
collectLoop(w, todo) ==
    IF todo = <<>> THEN w
    ELSE LET i == Head(todo)
             item == w.s.items[i]
             before == w.s.attackBonus
             after == Min(MAX_ATTACK_BONUS, before + item.bonus)
             gained == after - before
             w1 == [w EXCEPT !.s.attackBonus = after,
                             !.s.items[i].collected = TRUE,
                             !.o.collected = Append(@, [item |-> i, bonus |-> item.bonus,
                                                        before |-> before])]
             w2 == IF gained > 0
                   THEN spawnFloater(w1, [kind |-> "attack", n |-> gained],
                                     item.x + item.w \div 2, item.y)
                   ELSE w1
         IN  collectLoop(w2, Tail(todo))

advanceItems(w, dt) ==
    LET dy == (w.s.speed * dt) \div 10
        moved == [i \in 1..Len(w.s.items) |->
                    [w.s.items[i] EXCEPT !.y = @ + dy + (w.s.items[i].vy * dt) \div 10]]
    IN  collectLoop([w EXCEPT !.s.items = moved],
                    Indices(moved, LAMBDA item : ~item.collected /\ aabb(w.p, item)))

\* lines 521-524  (vy * dt: -30 u/s is -3 hundredths per ms)
advanceFloaters(w, dt) ==
    [w EXCEPT !.s.floaters =
        [i \in 1..Len(@) |-> [@[i] EXCEPT !.life = @ - dt,
                                           !.y = @ + (w.s.floaters[i].vy * dt) \div 10]]]

\* lines 526-540
prune(w) ==
    [w EXCEPT
       !.s.gates = SelectSeq(@, LAMBDA g : g.y < U(LOGICAL_H + 100) /\ ~g.used),
       !.s.zombies = SelectSeq(@, LAMBDA z : z.y < U(LOGICAL_H + 100) /\ z.hp > 0),
       !.s.bosses = SelectSeq(@, LAMBDA boss : boss.y < U(LOGICAL_H + 200) /\ boss.hp > 0),
       !.s.obstacles = SelectSeq(@, LAMBDA obs : obs.y < U(LOGICAL_H + 200) /\ obs.hp > 0),
       !.s.items = SelectSeq(@, LAMBDA item : item.y < U(LOGICAL_H + 80) /\ ~item.collected),
       !.s.bullets = SelectSeq(@, LAMBDA b : b.life > 0 /\ b.y > U(-50)),
       !.s.floaters = SelectSeq(@, LAMBDA f : f.life > 0)]

\* lines 545-553
publishHud(w, dt) ==
    LET acc == w.hudAccum + dt
    IN  IF acc >= 100
        THEN [w EXCEPT !.hudAccum = 0,
                       !.hud = [value |-> w.s.scoreValue, dist |-> w.s.dist \div 100,
                                alive |-> w.s.alive],
                       !.o.published = TRUE]
        ELSE [w EXCEPT !.hudAccum = acc]

\* the body of update after the guard of line 375
updateAlive(w, dt) ==
    LET w1 == movePlayer(w, dt)
        w2 == scrollWorld(w1, dt)
        w3 == resolveGates(w2)
        w4 == shootAtNearest(w3, dt)
        w5 == advanceBullets(w4, dt)
        w6 == resolveBullets(w5)
        w7 == resolveDamage(w6)
        w8 == advanceItems(w7, dt)
        w9 == advanceFloaters(w8, dt)
        w10 == prune(w9)
        w11 == ensureSpawns(w10)
        w12 == ensureBossSpawn(w11)
    IN  publishHud(w12, dt)

\* update without the guard of line 375
update_unguarded(w, dt) == updateAlive(w, dt)

update(w, dt) ==
    IF ~w.s.alive THEN w ELSE updateAlive(w, dt)

World(op, dt) ==
    [s |-> state, p |-> player, rg |-> rng, hudAccum |-> hudAccum, hud |-> hud,
     o |-> NoObs(op, dt, state.alive)]

Commit(w) ==
    /\ state' = w.s
    /\ player' = w.p
    /\ rng' = w.rg
    /\ hudAccum' = w.hudAccum
    /\ hud' = w.hud
    /\ ev' = w.o

-----------------------------------------------------------------------------
(* Inputs                                                                   *)

\* canvas.getBoundingClientRect() and the clientX of the pointer events
canvasRect == [left |-> 40, width |-> 720]
ClientXs == {220, 624}

\* elapsed times handed to update, ms: loop (line 691) caps a frame at 33 ms
DtSet == {33}

\* the run is followed up to this distance (logical units)
MaxDist == 6800
\* up to this many pointer events arrive, at these moments of the run (distance
\* scrolled, logical units)
MaxPointerEvents == 2
PointerAt == {0}

\* zero-length frames next to ordinary ones, followed over a short distance
IdleDts == {0, 33}
MaxIdleDist == 6

\* update called with longer elapsed times than the cap of loop, as after a
\* pause: 11100 ms scrolls 1998 units, 16700 ms scrolls 3006 units and 120000 ms
\* scrolls 21600 units
JumpDts == {1000, 11100, 16700, 120000}
MaxJumpDist == 22000

-----------------------------------------------------------------------------
(* The browser side of runGame: clock, animation-frame callbacks, listeners *)

\* before the effect of GameCanvas (lines 109-117) has run: rafRef.current is null
\* (0 here; the handles of requestAnimationFrame are positive)
host0 ==
    [mounted |-> FALSE, inst |-> 0, now |-> 0, last |-> 0,
     handles |-> 0, rafRef |-> 0, pending |-> {}, listeners |-> {}]

\* rafRef.current = requestAnimationFrame(loop), for the loop of run inst
requestAnimationFrame(h, inst) ==
    [h EXCEPT !.handles = @ + 1,
              !.rafRef = h.handles + 1,
              !.pending = @ \cup {[id |-> h.handles + 1, inst |-> inst]}]

cancelAnimationFrame(h, id) ==
    [h EXCEPT !.pending = {c \in @ : c.id # id}]

addEventListener(h, target, type) ==
    [h EXCEPT !.listeners = @ \cup {[inst |-> h.inst, target |-> target, type |-> type]}]

removeEventListener(h, target, type) ==
    [h EXCEPT !.listeners = @ \ {[inst |-> h.inst, target |-> target, type |-> type]}]

\* the host half of runGame (lines 365-371 and 698-701) for a new run
setup(h) ==
    LET h1 == [h EXCEPT !.mounted = TRUE, !.inst = @ + 1]
        h2 == addEventListener(h1, "canvas", "pointerdown")
        h3 == addEventListener(h2, "window", "pointermove")
        h4 == addEventListener(h3, "window", "pointerup")
        h5 == addEventListener(h4, "window", "pointercancel")
        h6 == [h5 EXCEPT !.last = h5.now]
        h7 == addEventListener(h6, "window", "resize")
    IN  requestAnimationFrame(h7, h7.inst)

\* the cleanup without cancelAnimationFrame
cleanup_noCancel(h) ==
    LET h2 == removeEventListener(h, "window", "resize")
        h3 == removeEventListener(h2, "canvas", "pointerdown")
        h4 == removeEventListener(h3, "window", "pointermove")
        h5 == removeEventListener(h4, "window", "pointerup")
        h6 == removeEventListener(h5, "window", "pointercancel")
    IN  [h6 EXCEPT !.mounted = FALSE]

\* the function returned by runGame (lines 703-710)
cleanup(h) ==
    LET h1 == IF h.rafRef # 0 THEN cancelAnimationFrame(h, h.rafRef) ELSE h
        h2 == removeEventListener(h1, "window", "resize")
        h3 == removeEventListener(h2, "canvas", "pointerdown")
        h4 == removeEventListener(h3, "window", "pointermove")
        h5 == removeEventListener(h4, "window", "pointerup")
        h6 == removeEventListener(h5, "window", "pointercancel")
    IN  [h6 EXCEPT !.mounted = FALSE]

\* line 691 without Math.min(0.033, ...)
frameDt_uncapped(now, last) == now - last

\* line 691: dt = Math.min(0.033, (now - last) / 1000), ms
frameDt(now, last) == Min(33, now - last)

\* update(dt) as loop calls it (line 693)
callUpdate(w, dt) ==
    LET w1 == update(w, dt)
    IN  [w1 EXCEPT !.o.calls = Append(@, [fn |-> "update", arg |-> dt])]

\* render (lines 556-688) draws the state and writes none of it
render(w) ==
    [w EXCEPT !.o.calls = Append(@, [fn |-> "render", arg |-> 0])]

-----------------------------------------------------------------------------
(* runGame: construction (lines 149-178, 371-372, 698-701)                  *)

state0 ==
    [time |-> 0, dist |-> 0, speed |-> 180, scoreValue |-> 1, alive |-> TRUE,
     targetX |-> U(LOGICAL_W) \div 2, pointerDown |-> FALSE,
     gates |-> <<>>, zombies |-> <<>>, bosses |-> <<>>, obstacles |-> <<>>,
     items |-> <<>>, bullets |-> <<>>, floaters |-> <<>>,
     shootCooldown |-> 0, lastSeg |-> -1, nextBossDist |-> BOSS_INTERVAL, attackBonus |-> 0]

player0 == [x |-> U(LOGICAL_W) \div 2 - U(16), y |-> U(LOGICAL_H - 120), w |-> U(32), h |-> U(40)]

runGame(tape) ==
    ensureSpawns([s |-> state0, p |-> player0, rg |-> [tape |-> tape, pos |-> 0],
                  hudAccum |-> 0, hud |-> [value |-> 1, dist |-> 0, alive |-> TRUE],
                  o |-> NoObs("init", 0, TRUE)])

Init ==
    \E tape \in 1..Len(Tapes) :
        LET w == runGame(tape)
        IN  /\ state = w.s
            /\ player = w.p
            /\ rng = w.rg
            /\ hudAccum = w.hudAccum
            /\ hud = w.hud
            /\ ev = w.o
            /\ delivered = 0
            /\ host = setup(host0)

-----------------------------------------------------------------------------
(* Operations                                                               *)

Update(dt, limit) ==
    /\ state.dist + (state.speed * dt) \div 10 <= U(limit)
    /\ Commit(update(World("update", dt), dt))
    /\ UNCHANGED <<delivered, host>>

toLogicalX(clientX) == ((clientX - canvasRect.left) * U(LOGICAL_W)) \div canvasRect.width

Deliver ==
    /\ delivered < MaxPointerEvents
    /\ \E d \in PointerAt : state.dist = U(d)
    /\ delivered' = delivered + 1
    /\ UNCHANGED host

onPointerDown(clientX) ==
    /\ state' = [state EXCEPT !.pointerDown = TRUE, !.targetX = toLogicalX(clientX)]
    /\ ev' = NoObs("pointerdown", 0, state.alive)
    /\ UNCHANGED <<player, hudAccum, hud, rng>>

\* onPointerMove without `if (!state.pointerDown) return`
onPointerMove_unguarded(clientX) ==
    /\ state' = [state EXCEPT !.targetX = toLogicalX(clientX)]
    /\ ev' = NoObs("pointermove", 0, state.alive)
    /\ UNCHANGED <<player, hudAccum, hud, rng>>

onPointerMove(clientX) ==
    /\ state' = IF ~state.pointerDown THEN state
                ELSE [state EXCEPT !.targetX = toLogicalX(clientX)]
    /\ ev' = NoObs("pointermove", 0, state.alive)
    /\ UNCHANGED <<player, hudAccum, hud, rng>>

\* lines 361-363, the listener of "pointerup" and of "pointercancel"
onPointerUp(type) ==
    /\ state' = [state EXCEPT !.pointerDown = FALSE]
    /\ ev' = NoObs(type, 0, state.alive)
    /\ UNCHANGED <<player, hudAccum, hud, rng>>

Pointer ==
    \/ \E cx \in ClientXs : Deliver /\ onPointerDown(cx)
    \/ \E cx \in ClientXs : Deliver /\ onPointerMove(cx)
    \/ \E type \in {"pointerup", "pointercancel"} : Deliver /\ onPointerUp(type)

Next ==
    \/ \E dt \in DtSet : Update(dt, MaxDist)
    \/ Pointer

Spec == Init /\ [][Next]_vars

NextIdle ==
    \/ \E dt \in IdleDts : Update(dt, MaxIdleDist)
    \/ Pointer

SpecIdle == Init /\ [][NextIdle]_vars

NextJump ==
    \/ \E dt \in JumpDts : Update(dt, MaxJumpDist)
    \/ Pointer

SpecJump == Init /\ [][NextJump]_vars

\* the time between two animation frames, ms: a fast display and a slow one
FrameGaps == {16, 40}

\* loop (lines 690-696), the callback c of the animation frame at host.now + gap
loop(gap) ==
    /\ \E c \in host.pending :
          LET now == host.now + gap
              dt == frameDt(now, host.last)
              h1 == [host EXCEPT !.pending = @ \ {c}, !.now = now, !.last = now]
              w == render(callUpdate(World("update", dt), dt))
          IN  /\ Commit([w EXCEPT !.o.calls =
                                     Append(@, [fn |-> "requestAnimationFrame", arg |-> 0])])
              /\ host' = requestAnimationFrame(h1, c.inst)
    /\ UNCHANGED delivered

\* the animation frames of a run: the frame rate varies at first, then the display
\* is a slow one, until the clock reaches MaxLoopClock (ms)
VariedUntil == 60
MaxLoopClock == 8400

Frame ==
    \E gap \in FrameGaps :
        /\ host.now + gap <= MaxLoopClock
        /\ host.now < VariedUntil \/ gap = 40
        /\ loop(gap)

NextLoop ==
    \/ Frame
    \/ Pointer

SpecLoop == Init /\ [][NextLoop]_vars

\* mount / unmount cycles of GameCanvas with pointer events and frames in between,
\* followed over a short time (ms)
MaxLifeClock == 80
MaxMounts == 2
MaxLifePointerEvents == 3

\* the browser delivers an event to a registered listener
Dispatch(target, type) ==
    /\ \E l \in host.listeners : l.target = target /\ l.type = type
    /\ delivered < MaxLifePointerEvents
    /\ delivered' = delivered + 1
    /\ UNCHANGED host

LifePointer ==
    \/ \E cx \in ClientXs : Dispatch("canvas", "pointerdown") /\ onPointerDown(cx)
    \/ \E cx \in ClientXs : Dispatch("window", "pointermove") /\ onPointerMove(cx)
    \/ \E type \in {"pointerup", "pointercancel"} : Dispatch("window", type) /\ onPointerUp(type)

LifeFrame ==
    \E gap \in FrameGaps : host.now + gap <= MaxLifeClock /\ loop(gap)

\* the effect of GameCanvas runs again (lines 109-117): a new run of runGame
Mount ==
    /\ ~host.mounted
    /\ host.inst < MaxMounts
    /\ \E tape \in 1..Len(Tapes) :
          LET w == runGame(tape)
          IN  /\ state' = w.s
              /\ player' = w.p
              /\ rng' = w.rg
              /\ hudAccum' = w.hudAccum
    /\ ev' = NoObs("mount", 0, TRUE)
    /\ host' = setup(host)
    /\ UNCHANGED <<hud, delivered>>

\* the effect cleanup of GameCanvas: the function runGame returned
Unmount ==
    /\ host.mounted
    /\ host' = cleanup(host)
    /\ ev' = NoObs("cleanup", 0, state.alive)
    /\ UNCHANGED <<state, player, hudAccum, hud, rng, delivered>>

NextLife ==
    \/ LifeFrame
    \/ LifePointer
    \/ Mount
    \/ Unmount

SpecLife == Init /\ [][NextLife]_vars

-----------------------------------------------------------------------------
(* Properties.  ev describes the operation that produced the current state: *)
(* in a step, ev' is the observation of the operation of that step.         *)

UpdateStep == ev'.op = "update"
AliveUpdateStep == ev'.op = "update" /\ state.alive
AfterAliveUpdate == ev.op = "update" /\ ev.startedAlive

\* C1: whenever the score value becomes 0 during an update step, by any cause
\* (a gate operation or damage), alive is false at the end of that same step.
C1_ZeroScoreEndsRun ==
    [][(AliveUpdateStep /\ state.scoreValue > 0 /\ state'.scoreValue = 0)
          => ~state'.alive]_vars

\* the case of C1 that the gates produce: an update that started alive ended
\* with score 0 and the run still goes on (hurtPlayer clears alive at 0, so the
\* score got there through a gate)
C1_ZeroScoreStillAlive ==
    /\ AfterAliveUpdate
    /\ state.scoreValue = 0
    /\ state.alive

\* C2: an update(dt) that starts with alive = false changes nothing, for any dt
\* (the whole state object, the player rectangle, the HUD accumulator, the random
\* generator), publishes no HUD snapshot, and alive stays false ever after.
C2_DeadUpdateIsNoOp ==
    [][/\ (UpdateStep /\ ~state.alive)
            => /\ state' = state
               /\ player' = player
               /\ hudAccum' = hudAccum
               /\ hud' = hud
               /\ rng' = rng
               /\ ~ev'.published
       /\ ~state.alive => ~state'.alive]_vars

\* an update with a long dt was called on a finished run
C2_DeadUpdateCalled ==
    /\ ev.op = "update"
    /\ ~ev.startedAlive
    /\ ev.dt > 1000
    /\ hudAccum + ev.dt >= 100

\* the positions of the entities of old are the same in new (new may hold more)
SamePositions(old, new) ==
    /\ Len(new) >= Len(old)
    /\ \A i \in 1..Len(old) : new[i].x = old[i].x /\ new[i].y = old[i].y

\* C3: from a state with alive = true, update(0) leaves every entity position
\* (player, gates, zombies, bosses, obstacles, items, bullets, floaters), the score
\* value and the alive flag unchanged.
C3_ZeroDtChangesNothing ==
    [][(AliveUpdateStep /\ ev'.dt = 0)
          => /\ player' = player
             /\ SamePositions(state.gates, state'.gates)
             /\ SamePositions(state.zombies, state'.zombies)
             /\ SamePositions(state.bosses, state'.bosses)
             /\ SamePositions(state.obstacles, state'.obstacles)
             /\ SamePositions(state.items, state'.items)
             /\ SamePositions(state.bullets, state'.bullets)
             /\ SamePositions(state.floaters, state'.floaters)
             /\ state'.scoreValue = state.scoreValue
             /\ state'.alive = state.alive]_vars

\* the number of multiples of BOSS_INTERVAL in (a, b], for distances 0 <= a <= b
\* in hundredths
Thresholds(a, b) == b \div U(BOSS_INTERVAL) - a \div U(BOSS_INTERVAL)

\* the bosses of seq that stand where spawnBoss puts a new one
AtSpawn(seq) == {i \in 1..Len(seq) : seq[i].y = U(-BOSS_HEIGHT - 120)}

\* C4: in an update step that starts alive, for a distance jump of any size, the
\* number of bosses spawned is the number of multiples of 2000 in (distance
\* before, distance after], each of them is in the boss collection at its spawn
\* position, and afterwards nextBossDist is the smallest multiple of 2000 strictly
\* greater than the distance.
C4_BossCatchUp ==
    [][(AliveUpdateStep /\ ev'.dt > 0)
          => /\ ev'.bossesSpawned = Thresholds(state.dist, state'.dist)
             /\ Cardinality(AtSpawn(state'.bosses)) = ev'.bossesSpawned
             /\ state'.nextBossDist
                    = BOSS_INTERVAL * (state'.dist \div U(BOSS_INTERVAL) + 1)]_vars

\* one update crossed the thresholds 2000 and 4000 (from 1998 to 5004)
C4_TwoThresholdsCrossed ==
    /\ AfterAliveUpdate
    /\ ev.dt = 16700
    /\ state.dist = U(5004)
    /\ ev.bossesSpawned = 2
    /\ state.nextBossDist = 6000

\* the indices of the segments an operation generated, in generation order
Generated(o) == [i \in 1..Len(o.segs) |-> o.segs[i].idx]

\* C5: after initialisation and after every update that starts alive, lastSeg =
\* floor((dist + 1400) / 240); lastSeg never decreases; construction generates the
\* indices 0..lastSeg and every later step exactly the indices lastSeg + 1 ..
\* lastSeg', each once and in increasing order.
C5_SpawnerHorizon ==
    /\ [](state.lastSeg = (state.dist + U(1400)) \div U(segLen))
    /\ [](ev.op = "init" => Generated(ev) = [i \in 1..(state.lastSeg + 1) |-> i - 1])
    /\ [][/\ state'.lastSeg >= state.lastSeg
          /\ Generated(ev') = [i \in 1..(state'.lastSeg - state.lastSeg) |->
                                  state.lastSeg + i]]_vars

\* an update generated several segments at once
C5_SeveralSegmentsInOneUpdate ==
    /\ AfterAliveUpdate
    /\ Len(ev.segs) >= 9
    /\ state.lastSeg = (state.dist + U(1400)) \div U(segLen)

\* C6: generating segment index i appends exactly one gate pair (two unused
\* gates, nothing else) when i mod 3 = 0, only zombies (between 9 and 40) when
\* i mod 3 = 1, exactly one obstacle (nothing else) when i mod 3 = 2; never a
\* boss or an item.
C6_ContentRhythm ==
    \A i \in 1..Len(ev.segs) :
        LET r == ev.segs[i]
        IN  /\ r.bosses = 0
            /\ r.items = 0
            /\ r.idx % 3 = 0 =>
                  /\ Len(r.gates) = 2
                  /\ ~r.gates[1].used /\ ~r.gates[2].used
                  /\ r.zombies = 0 /\ r.obstacles = 0
            /\ r.idx % 3 = 1 =>
                  /\ r.gates = <<>>
                  /\ r.zombies >= 9 /\ r.zombies <= 40
                  /\ r.obstacles = 0
            /\ r.idx % 3 = 2 =>
                  /\ r.gates = <<>>
                  /\ r.zombies = 0
                  /\ r.obstacles = 1

\* one update generated a gate pair, an obstacle, a wave below the cap and a
\* wave of exactly 40
C6_AllContentKinds ==
    /\ AfterAliveUpdate
    /\ \E i \in 1..Len(ev.segs) : ev.segs[i].zombies = 40
    /\ \E i \in 1..Len(ev.segs) : ev.segs[i].zombies \in 9..39
    /\ \E i \in 1..Len(ev.segs) : Len(ev.segs[i].gates) = 2
    /\ \E i \in 1..Len(ev.segs) : ev.segs[i].obstacles = 1

\* the collection of a snapshot that holds the targets of a kind
Group(snap, kind) ==
    IF kind = "zombie" THEN snap.zombies
    ELSE IF kind = "boss" THEN snap.bosses
    ELSE snap.obstacles

\* the damage the first k hits of operation o did to target t of a kind
DamageTo(o, kind, t, k) ==
    LET RECURSIVE sum(_)
        sum(j) == IF j = 0 THEN 0
                  ELSE sum(j - 1)
                       + (IF o.hits[j].kind = kind /\ o.hits[j].target = t
                          THEN o.pre.bullets[o.hits[j].bullet].dmg ELSE 0)
    IN  sum(k)

\* the targets of a kind that bullet b overlaps and that still have hp > 0 when
\* the k-th hit of o is about to land
LiveUnder(o, kind, b, k) ==
    {t \in 1..Len(Group(o.pre, kind)) :
        /\ Group(o.pre, kind)[t].hp - DamageTo(o, kind, t, k - 1) > 0
        /\ aabb(b, Group(o.pre, kind)[t])}

Lowest(S) == CHOOSE i \in S : \A j \in S : i <= j

TargetKinds == {"zombie", "boss", "obstacle"}

\* C7: in one update step each live bullet damages at most one target: the first
\* overlapping zombie with hp > 0 in collection order, otherwise the first
\* overlapping boss with hp > 0, and an obstacle only if it hit no zombie and no
\* boss; the targets lose exactly the damage of the bullets that hit them; a
\* bullet that hit has life 0 and is not in the bullet collection afterwards.
C7_OneTargetPerBullet ==
    AfterAliveUpdate =>
        /\ \A i, j \in 1..Len(ev.hits) : ev.hits[i].bullet = ev.hits[j].bullet => i = j
        /\ \A k \in 1..Len(ev.hits) :
              LET h == ev.hits[k]
                  b == ev.pre.bullets[h.bullet]
                  zs == LiveUnder(ev, "zombie", b, k)
                  bs == LiveUnder(ev, "boss", b, k)
                  os == LiveUnder(ev, "obstacle", b, k)
              IN  /\ b.life > 0
                  /\ h.kind = "zombie" => zs # {} /\ h.target = Lowest(zs)
                  /\ h.kind = "boss" => zs = {} /\ bs # {} /\ h.target = Lowest(bs)
                  /\ h.kind = "obstacle" => zs = {} /\ bs = {} /\ h.target \in os
                  /\ ev.post.bullets[h.bullet].life = 0
        /\ \A kind \in TargetKinds :
              /\ Len(Group(ev.post, kind)) = Len(Group(ev.pre, kind))
              /\ \A t \in 1..Len(Group(ev.pre, kind)) :
                    Group(ev.post, kind)[t].hp
                        = Group(ev.pre, kind)[t].hp - DamageTo(ev, kind, t, Len(ev.hits))
        /\ \A i \in 1..Len(state.bullets) : state.bullets[i].life > 0
        /\ Len(state.bullets) <= Len(ev.post.bullets) - Len(ev.hits)

\* a bullet that overlapped a live zombie and a live obstacle at once hit the
\* zombie and left the obstacle as it was
C7_BulletWithTwoTargets ==
    /\ AfterAliveUpdate
    /\ \E k \in 1..Len(ev.hits) :
          LET b == ev.pre.bullets[ev.hits[k].bullet]
          IN  /\ ev.hits[k].kind = "zombie"
              /\ \E t \in LiveUnder(ev, "obstacle", b, k) :
                    ev.post.obstacles[t].hp = ev.pre.obstacles[t].hp

\* the obstacles an update reduced to hp <= 0
Destroyed(o) ==
    {t \in 1..Len(o.pre.obstacles) :
        o.pre.obstacles[t].hp > 0 /\ o.post.obstacles[t].hp <= 0}

\* the items of o.itemsSpawned that lie at the bottom centre of obstacle ob with
\* the bonus its maxHp gives
ItemsOf(o, ob) ==
    {k \in 1..Len(o.itemsSpawned) :
        /\ o.itemsSpawned[k].x = ob.x + ob.w \div 2 - U(ATTACK_ITEM_SIZE) \div 2
        /\ o.itemsSpawned[k].y = ob.y + ob.h
        /\ o.itemsSpawned[k].bonus = clamp(ob.maxHp \div 30, 1, 6)}

\* C8: every obstacle reduced to hp <= 0 yields exactly one attack item, with
\* bonus clamp(floor(maxHp / 30), 1, 6), and is gone after the step (so it cannot
\* yield a second one later); attack items are created in no other way.
C8_OneItemPerObstacle ==
    /\ [](/\ Len(ev.itemsSpawned) = Cardinality(Destroyed(ev))
          /\ \A t \in Destroyed(ev) : Cardinality(ItemsOf(ev, ev.pre.obstacles[t])) = 1
          /\ \A i \in 1..Len(state.obstacles) : state.obstacles[i].hp > 0
          /\ ev.op = "init" => state.items = <<>>)
    /\ [][Len(state'.items) <= Len(state.items) + Len(ev'.itemsSpawned)]_vars

\* an obstacle was destroyed in a step in which several bullets struck it
C8_ObstacleDestroyedByVolley ==
    /\ AfterAliveUpdate
    /\ \E t \in Destroyed(ev) :
          /\ Cardinality({k \in 1..Len(ev.hits) :
                            ev.hits[k].kind = "obstacle" /\ ev.hits[k].target = t}) >= 2
          /\ Cardinality(ItemsOf(ev, ev.pre.obstacles[t])) = 1

\* the summed bonus of the items an operation collected
BonusCollected(o) ==
    LET RECURSIVE sum(_)
        sum(j) == IF j = 0 THEN 0 ELSE sum(j - 1) + o.collected[j].bonus
    IN  sum(Len(o.collected))

\* C9: always 0 <= attackBonus <= 6; attackBonus never decreases; a step raises it
\* by at most the bonus of the items collected in it, each item is collected at
\* most once, and a collected item is not in the item collection afterwards.
C9_AttackBonusCapped ==
    /\ [](/\ state.attackBonus >= 0
          /\ state.attackBonus <= MAX_ATTACK_BONUS
          /\ \A i \in 1..Len(state.items) : ~state.items[i].collected)
    /\ [][/\ state'.attackBonus >= state.attackBonus
          /\ state'.attackBonus - state.attackBonus <= BonusCollected(ev')
          /\ \A i, j \in 1..Len(ev'.collected) :
                ev'.collected[i].item = ev'.collected[j].item => i = j
          /\ \A k \in 1..Len(ev'.collected) :
                LET c == ev'.collected[k]
                IN  /\ c.item \in 1..(Len(state.items) + Len(ev'.itemsSpawned))
                    /\ (state.items \o ev'.itemsSpawned)[c.item].bonus = c.bonus
          /\ Len(state'.items) <= Len(state.items) + Len(ev'.itemsSpawned)
                                     - Len(ev'.collected)]_vars

\* an item was collected whose bonus would have taken attackBonus past the cap
C9_CollectedAtTheCap ==
    /\ AfterAliveUpdate
    /\ state.attackBonus = MAX_ATTACK_BONUS
    /\ \E k \in 1..Len(ev.collected) :
          /\ ev.collected[k].before > 0
          /\ ev.collected[k].before + ev.collected[k].bonus > MAX_ATTACK_BONUS

\* C10: in an update step that starts alive, if after scrolling some boss has
\* y + h >= 640, alive is false at the end of the step, whether or not the boss
\* overlaps the player and whatever the score value is.
C10_BossAtBottomEndsRun ==
    [][(/\ AliveUpdateStep
        /\ \E i \in 1..Len(state.bosses) :
              state.bosses[i].y + (state.speed * ev'.dt) \div 10 + state.bosses[i].h
                  >= U(LOGICAL_H))
          => ~state'.alive]_vars

\* a boss reached the lane bottom beside the player, whose score was still
\* positive, and the run ended
C10_BossPassedBesidePlayer ==
    /\ AfterAliveUpdate
    /\ ~state.alive
    /\ state.scoreValue > 0
    /\ \E i \in 1..Len(state.bosses) :
          /\ state.bosses[i].y + state.bosses[i].h >= U(LOGICAL_H)
          /\ state.bosses[i].hp > 0
          /\ ~aabb(player, state.bosses[i])

-----------------------------------------------------------------------------
(* The pure functions applyGate and getCrowdWidth, applied to inputs drawn  *)
(* at the start; the world stays as constructed.                            *)

\* scores, gate amounts and segment counts the functions are applied to
MaxValue == 40
MaxAmount == 6
MaxCount == 20
GateTypes == {"add", "sub", "mul", "div"}

InitPure ==
    /\ \E tape \in 1..Len(Tapes) :
          LET w == runGame(tape)
          IN  /\ state = w.s
              /\ player = w.p
              /\ rng = w.rg
              /\ hudAccum = w.hudAccum
              /\ hud = w.hud
    /\ delivered = 0
    /\ host = setup(host0)
    /\ \/ \E v \in 0..MaxValue, t \in GateTypes, a \in 1..MaxAmount :
             ev = [op |-> "gateInput", value |-> v, gate |-> [type |-> t, amount |-> a]]
       \/ \E c1 \in 0..MaxCount, c2 \in 0..MaxCount :
             ev = [op |-> "countInput", c1 |-> c1, c2 |-> c2]

applyGateCall ==
    /\ ev.op = "gateInput"
    /\ ev' = [op |-> "applyGate", value |-> ev.value, gate |-> ev.gate,
              result |-> applyGate(ev.value, ev.gate)]
    /\ UNCHANGED <<state, player, hudAccum, hud, rng, delivered, host>>

getCrowdWidthCall ==
    /\ ev.op = "countInput"
    /\ ev' = [op |-> "getCrowdWidth", c1 |-> ev.c1, c2 |-> ev.c2,
              w1 |-> getCrowdWidth(ev.c1), w2 |-> getCrowdWidth(ev.c2)]
    /\ UNCHANGED <<state, player, hudAccum, hud, rng, delivered, host>>

NextPure ==
    \/ applyGateCall
    \/ getCrowdWidthCall

SpecPure == InitPure /\ [][NextPure]_vars

\* q = floor(v / a) for v >= 0 and a > 0
IsFloorOfQuotient(q, v, a) == q * a <= v /\ v < (q + 1) * a

\* C11: for every non-negative integer v and every gate operation with a
\* positive integer amount, applyGate(v, op) = max(0, r) with r = v + amount,
\* v - amount, v * amount or floor(v / amount); the result is never negative.
C11_ApplyGate ==
    ev.op = "applyGate" =>
        LET v == ev.value
            a == ev.gate.amount
            res == ev.result
        IN  /\ res >= 0
            /\ ev.gate.type = "add" => res = v + a
            /\ ev.gate.type = "sub" => res = (IF v - a > 0 THEN v - a ELSE 0)
            /\ ev.gate.type = "mul" => res = v * a
            /\ ev.gate.type = "div" => IsFloorOfQuotient(res, v, a)

\* applyGate(2, sub 5) = 0: the clamp acted
C11_SubClampedAtZero ==
    /\ ev.op = "applyGate"
    /\ ev.value = 2
    /\ ev.gate = [type |-> "sub", amount |-> 5]
    /\ ev.result = 0

\* C12: over the reachable counts 1..20 getCrowdWidth is strictly increasing:
\* c1 < c2 implies getCrowdWidth(c1) < getCrowdWidth(c2).
C12_CrowdWidthMonotone ==
    (ev.op = "getCrowdWidth" /\ 1 <= ev.c1 /\ ev.c1 < ev.c2 /\ ev.c2 <= 20)
        => ev.w1 < ev.w2

\* C13: in every reachable state the score value is a non-negative integer and
\* the segment count derived from it is in 1..20.
C13_ScoreNonNegative ==
    /\ state.scoreValue \in Nat
    /\ getPlayerCount(state.scoreValue) \in 1..MAX_PLAYER_SEGMENTS
    /\ hud.value \in Nat

\* after gate crossings and damage the score is above 20 and the count is held
\* at 20
C13_ScoreAboveTwenty ==
    /\ AfterAliveUpdate
    /\ state.scoreValue > MAX_PLAYER_SEGMENTS
    /\ getPlayerCount(state.scoreValue) = MAX_PLAYER_SEGMENTS
    /\ \E i \in 1..Len(state.floaters) :
          state.floaters[i].text.kind = "delta" /\ state.floaters[i].text.n < 0

\* the hazards of seq that are on the player and still standing
Touching(seq) == {i \in 1..Len(seq) : seq[i].hp > 0 /\ aabb(player, seq[i])}

RECURSIVE SumDamage(_, _)
SumDamage(seq, S) ==
    IF S = {} THEN 0
    ELSE LET i == CHOOSE j \in S : TRUE
         IN  seq[i].damage + SumDamage(seq, S \ {i})

\* what the hazards on the player take together after the bullets were resolved:
\* 1 for each obstacle, its damage for each zombie and each boss
ContactDamage ==
    Cardinality(Touching(ev.post.obstacles))
    + SumDamage(ev.post.zombies, Touching(ev.post.zombies))
    + SumDamage(ev.post.bosses, Touching(ev.post.bosses))

ContactCount ==
    Cardinality(Touching(ev.post.obstacles)) + Cardinality(Touching(ev.post.zombies))
    + Cardinality(Touching(ev.post.bosses))

BossAtBottom == \E i \in 1..Len(ev.pre.bosses) :
                    ev.pre.bosses[i].y + ev.pre.bosses[i].h >= U(LOGICAL_H)

\* C17: in an update step that starts alive and in which no boss reaches the lane
\* bottom, when the player overlaps obstacles, zombies and bosses with hp > 0 after
\* bullet resolution, the score at the end is max(0, s - T), s being the score after
\* the gates of the step and T being 1 per obstacle plus the damage of every zombie
\* and boss overlapped; alive is false at the end exactly when that result is 0.
C17_CumulativeDamage ==
    (AfterAliveUpdate /\ ~BossAtBottom /\ ContactCount >= 1)
        => /\ state.scoreValue = Max(0, ev.afterGates - ContactDamage)
           /\ state.alive <=> state.scoreValue # 0

\* several hazards hurt the player in one step and the player survives it
C17_SeveralHazardsSurvived ==
    /\ AfterAliveUpdate /\ ~BossAtBottom
    /\ ContactCount >= 2
    /\ state.alive
    /\ state.scoreValue = ev.afterGates - ContactDamage
    /\ Len(ev.hurts) = ContactCount

\* C18: within one update step, once alive has been set false (a boss at the lane
\* bottom, or damage), no later phase of the step changes the score: at the end of
\* the step the score is what it was when alive was cleared.
C18_ScoreFrozenAfterDeath ==
    (AfterAliveUpdate /\ ~state.alive) => state.scoreValue = ev.scoreAtDeath

\* a step in which the player dies and a gate is applied
C18_GateAppliedInDeathStep ==
    AfterAliveUpdate /\ ~state.alive /\ Len(ev.gatesApplied) >= 1

\* gate i of the collection before the step, where the scroll of the step puts it
ScrolledGate(i) == [state.gates[i] EXCEPT !.y = @ + (state.speed * ev'.dt) \div 10]
\* the gates of the collection before the step that the step applied
AppliedGates == {ev'.gatesApplied[k].gate : k \in 1..Len(ev'.gatesApplied)}
\* gate i of the collection before the step is still in the collection after it
\* (a gate keeps its x and its place relative to the distance scrolled)
GateKept(i) == \E j \in 1..Len(state'.gates) :
                  /\ state'.gates[j].x = state.gates[i].x
                  /\ state'.gates[j].y - state'.dist = state.gates[i].y - state.dist

\* C19: each gate's operation is applied at most once: the update step in which an
\* unused gate overlaps the player marks it, applies its operation once and removes
\* it from the collection; after every update step that starts alive no gate of
\* the collection is marked used.
C19_GateAppliedOnce ==
    [][AliveUpdateStep =>
         /\ \A k1, k2 \in 1..Len(ev'.gatesApplied) :
                ev'.gatesApplied[k1].gate = ev'.gatesApplied[k2].gate => k1 = k2
         /\ \A i \in 1..Len(state.gates) :
                (~state.gates[i].used /\ aabb(player', ScrolledGate(i))) <=> i \in AppliedGates
         /\ \A i \in AppliedGates : ~GateKept(i)
         /\ \A j \in 1..Len(state'.gates) : ~state'.gates[j].used]_vars

\* a gate was applied in a step the player survives, with other gates still ahead
C19_GateConsumed ==
    /\ AfterAliveUpdate /\ state.alive
    /\ Len(ev.gatesApplied) = 1
    /\ ev.gatesApplied[1].after # ev.gatesApplied[1].before
    /\ Len(state.gates) >= 1

\* C20: after every update step that starts alive, whatever the score did (a jump
\* of the crowd width included) and wherever the pointer target is, the player
\* rectangle is inside the lane margins: player.x >= 18 and player.x + player.w <= 342.
C20_PlayerWithinLane ==
    AfterAliveUpdate => /\ player.x >= U(18)
                        /\ player.x + player.w <= U(LOGICAL_W - 18)

\* the crowd has just widened at a target near the lane edge
C20_WidenedAtTheEdge ==
    /\ AfterAliveUpdate
    /\ player.w > U(MIN_PLAYER_WIDTH)
    /\ state.targetX - player.w \div 2 < U(18)
    /\ player.x < U(18) - U(1)

\* an animation-frame callback runs in the step (only loop reads the frame time)
FrameStep == host'.now # host.now

\* C14: every animation-frame callback calls update exactly once, with
\* dt = min(0.033 s, time since the previous callback), then render exactly once,
\* then schedules exactly one next callback; nothing else calls update or render,
\* so the two alternate; at most one callback is pending at any time; the loop goes
\* on in the same way, rendering included, once the player is dead.
C14_FrameLoop ==
    /\ [](Cardinality(host.pending) <= 1)
    /\ [][/\ FrameStep =>
               /\ ev'.calls = <<[fn |-> "update", arg |-> Min(33, host'.now - host.last)],
                                [fn |-> "render", arg |-> 0],
                                [fn |-> "requestAnimationFrame", arg |-> 0]>>
               /\ Cardinality(host'.pending) = 1
               /\ host'.pending \cap host.pending = {}
          /\ ~FrameStep => ev'.calls = <<>>]_vars

\* a frame of a slow display after the player died: update (capped dt), render and
\* the next callback
C14_RenderedAfterDeath ==
    /\ ~state.alive /\ ev.op = "update" /\ ~ev.startedAlive
    /\ Len(ev.calls) = 3
    /\ ev.calls[1] = [fn |-> "update", arg |-> 33]
    /\ ev.calls[2].fn = "render"
    /\ Cardinality(host.pending) = 1

\* C15: once the cleanup returned by runGame has run, no frame callback is pending,
\* update and render are not invoked again, and every listener registered at setup
\* (pointerdown, pointermove, pointerup, pointercancel, resize) is removed; after
\* any sequence of mount / unmount cycles nothing is left over: while a run is
\* mounted, every pending callback and every listener is its own.
C15_Teardown ==
    /\ [](~host.mounted => host.pending = {} /\ host.listeners = {})
    /\ [](host.mounted => /\ \A c \in host.pending : c.inst = host.inst
                          /\ \A l \in host.listeners : l.inst = host.inst)
    /\ [][~host.mounted => ev'.op = "mount" /\ ev'.calls = <<>>]_vars

\* the cleanup of a second run, after frames and pointer events
C15_SecondCleanup ==
    /\ ~host.mounted /\ ev.op = "cleanup"
    /\ host.inst >= 2
    /\ host.handles >= 4
    /\ delivered >= 1

\* a pointer event is handled in the step
PointerStep == delivered' = delivered + 1

\* C16: the pointer handlers, in whatever order they run between the frames, write
\* only targetX and pointerDown; targetX changes only on pointer-down, or on
\* pointer-move while pointerDown is true; pointer-up and pointer-cancel clear
\* pointerDown, and from then on every move is ignored until the next pointer-down
\* (no frame changes either field).
C16_PointerHandlers ==
    [][/\ PointerStep =>
            /\ [state' EXCEPT !.targetX = state.targetX,
                              !.pointerDown = state.pointerDown] = state
            /\ player' = player /\ hudAccum' = hudAccum /\ hud' = hud /\ rng' = rng
            /\ host' = host
            /\ state'.targetX # state.targetX =>
                   \/ ev'.op = "pointerdown"
                   \/ ev'.op = "pointermove" /\ state.pointerDown
            /\ ev'.op = "pointerdown" => state'.pointerDown
            /\ ev'.op = "pointermove" => state'.pointerDown = state.pointerDown
            /\ ev'.op \in {"pointerup", "pointercancel"} => ~state'.pointerDown
       /\ (~PointerStep /\ ev'.op # "mount") =>
            /\ state'.targetX = state.targetX
            /\ state'.pointerDown = state.pointerDown]_vars

\* a move arrives after the pointer went down and up again
C16_MoveAfterUp ==
    /\ ev.op = "pointermove"
    /\ ~state.pointerDown
    /\ state.targetX # U(LOGICAL_W) \div 2
    /\ delivered >= 3
    /\ host.now > 0

-----------------------------------------------------------------------------
(* The HUD after the death of the player                                    *)

\* the run is followed up to this distance (logical units); once the player is
\* dead the frames go on, of either length (ms)
MaxHudDist == 1300
HudDts == {16, 33}

\* a frame while the player is alive
LiveUpdate == \E dt \in DtSet : state.alive /\ Update(dt, MaxHudDist)

\* a frame after the player died: loop still calls update(dt) (line 693)
DeadUpdate == \E dt \in HudDts : ~state.alive /\ Update(dt, MaxHudDist)

NextHud ==
    \/ LiveUpdate
    \/ DeadUpdate
    \/ Pointer

\* the browser keeps delivering animation frames after the death of the player
SpecHud == Init /\ [][NextHud]_vars /\ WF_vars(DeadUpdate)

\* C21: whenever alive becomes false, a HUD snapshot with alive = false is
\* eventually published while the frames keep running: the HUD does not show
\* alive = true forever after the player has died.
C21_DeathReachesHud == (~state.alive) ~> (~hud.alive)

\* a frame has run on the dead player and the snapshot still says alive
C21_HudStillAlive ==
    /\ ~state.alive /\ hud.alive
    /\ ev.op = "update" /\ ~ev.startedAlive
    /\ ev.dt = 16

====
